---- MODULE Spec2Model ----
(***************************************************************************)
(* A model of package cmndr (src/cmd.go): the Cmd command tree, the        *)
(* registration of subcommands (AddCmd), the dispatch of an argument list  *)
(* (ExecArgs), the synthesized "help" subcommand (newHelpCmd) and the      *)
(* usage rendering (newUsage, printSubcommands).                           *)
(*                                                                         *)
(* Go values are modelled as follows.                                      *)
(*   - *Cmd is an index into the sequence heap; 0 is the nil pointer.      *)
(*   - []string is a record [isNil, elems]: Go tells a nil slice from an   *)
(*     empty one, and so does the model.                                   *)
(*   - map[string]*Cmd is a record [isNil, m] with m a function from Keys  *)
(*     to pointers, 0 standing for "no entry".                             *)
(*   - *flag.FlagSet is a record owned by its Cmd; the part of package     *)
(*     flag that cmd.go calls (NewFlagSet, Parse, Arg, NArg, Args, Usage,  *)
(*     PrintDefaults) is modelled from its call sites.                     *)
(*   - what is written to os.Stderr is a sequence of lines, each line a    *)
(*     sequence of strings: the fixed text of its format and the values    *)
(*     formatted into it.                                                  *)
(***************************************************************************)
EXTENDS Integers, Sequences, FiniteSets, TLC

\* ---------------------------------------------------------------------
\* Bounds
\* ---------------------------------------------------------------------

\* The longest argument list handed to ExecArgs.
MaxArgs == 4

\* ---------------------------------------------------------------------
\* Strings
\* ---------------------------------------------------------------------

\* The names a Cmd is registered under (the keys of Cmd.Commands).
Keys == {"a", "b", "help"}

\* The flag a program may declare on a flag set, and the tokens giving it.
FlagNames == {"flag"}

FlagTokens == {"--flag=v"}

\* The argument tokens of a command line: the names, of which each is a
\* positional argument, and the flag. The tokens "--", "-h" and "-help",
\* which package flag treats on their own, and the empty string are not
\* among them.
Tokens == Keys \cup FlagTokens

\* The bytes of the strings that get compared (sort.Strings compares bytes).
Bytes(s) ==
  CASE s = ""     -> << >>
    [] s = "a"    -> <<97>>
    [] s = "b"    -> <<98>>
    [] s = "flag" -> <<102, 108, 97, 103>>
    [] s = "help" -> <<104, 101, 108, 112>>

RECURSIVE LessBytes(_, _)
LessBytes(x, y) ==
  IF y = << >> THEN FALSE
  ELSE IF x = << >> THEN TRUE
  ELSE IF x[1] < y[1] THEN TRUE
  ELSE IF x[1] > y[1] THEN FALSE
  ELSE LessBytes(Tail(x), Tail(y))

\* Go's < on strings.
Less(s, t) == LessBytes(Bytes(s), Bytes(t))

RECURSIVE InsertSorted(_, _)
InsertSorted(x, s) ==
  IF s = << >> THEN <<x>>
  ELSE IF Less(x, Head(s)) THEN <<x>> \o s
  ELSE <<Head(s)>> \o InsertSorted(x, Tail(s))

RECURSIVE SortStrings(_)
SortStrings(s) ==
  IF s = << >> THEN << >> ELSE InsertSorted(Head(s), SortStrings(Tail(s)))

\* ---------------------------------------------------------------------
\* Slices
\* ---------------------------------------------------------------------

NilSlice == [isNil |-> TRUE, elems |-> << >>]

MkSlice(s) == [isNil |-> FALSE, elems |-> s]

\* s[1:] of a slice that has an element: never nil.
SliceTail(sl) == MkSlice(Tail(sl.elems))

RECURSIVE SeqsUpTo(_, _)
SeqsUpTo(S, n) ==
  IF n = 0 THEN {<< >>}
  ELSE LET shorter == SeqsUpTo(S, n - 1)
       IN shorter \cup {Append(s, x) : s \in {t \in shorter : Len(t) = n - 1}, x \in S}

\* The argument lists a caller may hand to ExecArgs.
ArgLists == {NilSlice} \cup {MkSlice(s) : s \in SeqsUpTo(Tokens, MaxArgs)}

\* ---------------------------------------------------------------------
\* package flag, as far as cmd.go uses it
\* ---------------------------------------------------------------------

NoValues == [f \in FlagNames |-> ""]

\* The nil *flag.FlagSet.
NilFlags ==
  [isNil |-> TRUE, name |-> "", errorHandling |-> "ExitOnError",
   usage |-> "defaultUsage", formal |-> {}, value |-> NoValues, args |-> NilSlice]

\* flag.NewFlagSet(name, errorHandling); its Usage is the default one.
NewFlagSet(name, eh) ==
  [isNil |-> FALSE, name |-> name, errorHandling |-> eh,
   usage |-> "defaultUsage", formal |-> {}, value |-> NoValues, args |-> NilSlice]

\* The lexical classes of a token, as FlagSet.parseOne reads it: a token
\* shorter than two bytes or not starting with '-' is positional.
IsFlagToken(tok) == tok \in FlagTokens

FlagNameOf(tok) == CASE tok = "--flag=v" -> "flag"

FlagValueOf(tok) == CASE tok = "--flag=v" -> "v"

\* FlagSet.Parse up to its error handling: flags are consumed from the front
\* until the first positional token; a flag that is not declared stops the
\* parse with an error. Yields the flag set (values bound, Args() set) and
\* the error ("" for none) with the name it is about.
RECURSIVE ParseFrom(_, _)
ParseFrom(fs, rest) ==
  IF rest.elems = << >> \/ ~IsFlagToken(Head(rest.elems))
  THEN [fs |-> [fs EXCEPT !.args = rest], err |-> "", flag |-> ""]
  ELSE LET tok  == Head(rest.elems)
           name == FlagNameOf(tok)
           left == SliceTail(rest)
       IN IF name \notin fs.formal
          THEN [fs |-> [fs EXCEPT !.args = left],
                err |-> "flag provided but not defined", flag |-> name]
          ELSE ParseFrom([fs EXCEPT !.value[name] = FlagValueOf(tok)], left)

\* FlagSet.Arg(0): the first positional argument, "" when there is none.
Arg0(fs) == IF fs.args.elems = << >> THEN "" ELSE Head(fs.args.elems)

NArg(fs) == Len(fs.args.elems)

\* ---------------------------------------------------------------------
\* Cmd
\* ---------------------------------------------------------------------

\* os.Args[0].
ProgName == "prog"

NoEntries == [k \in Keys |-> 0]

\* The nil map[string]*Cmd, and make(map[string]*Cmd).
NilCommands == [isNil |-> TRUE, m |-> NoEntries]

MakeCommands == [isNil |-> FALSE, m |-> NoEntries]

\* sub, ok := cmds[k]: the pointer registered under k, 0 when !ok. Reading a
\* nil map finds nothing.
Lookup(cmds, k) == IF k \in Keys THEN cmds.m[k] ELSE 0

\* The keys of a map in the order a range statement visits them: the order
\* iter, which the runtime picks, restricted to the keys present.
RangeKeys(cmds, iter) == SelectSeq(iter, LAMBDA k : cmds.m[k] # 0)

\* The orders in which the runtime may visit the keys K of a map.
IterOrders(K) ==
  {s \in [1..Cardinality(K) -> K] : \A k \in K : \E i \in DOMAIN s : s[i] = k}

\* A Cmd value. Run is "nil", "user" (a RunFunc of the program) or "help"
\* (the closure newHelpCmd builds, which captures parent).
MkCmd(name, descr, flags, run, parent) ==
  [Name |-> name, Description |-> descr, Flags |-> flags,
   Commands |-> NilCommands, Run |-> run, parent |-> parent]

\* ---------------------------------------------------------------------
\* Usage rendering
\* ---------------------------------------------------------------------

\* fmt.Fprintf(os.Stderr, "%s - %s\n", c.Name, c.Description)
TitleLine(cmd) == <<"title", cmd.Name>> \o cmd.Description

CommandsHeader == <<"Commands">>

FlagsHeader == <<"Flags">>

CommandRow(h, name, sub) == <<"command", name>> \o h[sub].Description

RECURSIVE CommandRows(_, _, _)
CommandRows(h, cmds, names) ==
  IF names = << >> THEN << >>
  ELSE <<CommandRow(h, Head(names), cmds.m[Head(names)])>>
         \o CommandRows(h, cmds, Tail(names))

\* A variant of printSubcommands: a Cmd whose only subcommand is "help" is
\* printed as one without subcommands.
printSubcommands_hideHelp(h, c, iter) ==
  IF h[c].Commands.isNil \/ RangeKeys(h[c].Commands, iter) = <<"help">>
  THEN << >>
  ELSE LET subNames == SortStrings(RangeKeys(h[c].Commands, iter))
       IN <<CommandsHeader>> \o CommandRows(h, h[c].Commands, subNames)

\* printSubcommands(c): nothing for a nil map; else the header and one row
\* for each key, the keys gathered in map order and then sorted.
printSubcommands(h, c, iter) ==
  IF h[c].Commands.isNil THEN << >>
  ELSE LET subNames == SortStrings(RangeKeys(h[c].Commands, iter))
       IN <<CommandsHeader>> \o CommandRows(h, h[c].Commands, subNames)

RECURSIVE SetToSeq(_)
SetToSeq(S) ==
  IF S = {} THEN << >>
  ELSE LET x == CHOOSE y \in S : TRUE IN <<x>> \o SetToSeq(S \ {x})

RECURSIVE FlagRows(_)
FlagRows(names) ==
  IF names = << >> THEN << >>
  ELSE <<<<"flag", Head(names)>>>> \o FlagRows(Tail(names))

\* FlagSet.PrintDefaults: one entry for each declared flag, sorted by name.
PrintDefaults(fs) == FlagRows(SortStrings(SetToSeq(fs.formal)))

\* FlagSet.defaultUsage, the Usage of a flag set made by flag.NewFlagSet.
defaultUsage(fs) ==
  <<IF fs.name = "" THEN <<"Usage:">> ELSE <<"Usage of", fs.name>>>>
    \o PrintDefaults(fs)

\* A variant of newUsage: the subcommands are left out.
newUsage_noCommands(h, c, iter) ==
  LET h1 == IF h[c].Flags.isNil
            THEN [h EXCEPT ![c].Flags = NewFlagSet(h[c].Name, "ExitOnError")]
            ELSE h
  IN [heap |-> h1,
      out  |-> <<TitleLine(h1[c])>> \o <<FlagsHeader>> \o PrintDefaults(h1[c].Flags)]

\* The function newUsage(c) returns. Yields the heap and the lines written.
newUsage(h, c, iter) ==
  LET h1 == IF h[c].Flags.isNil
            THEN [h EXCEPT ![c].Flags = NewFlagSet(h[c].Name, "ExitOnError")]
            ELSE h
  IN [heap |-> h1,
      out  |-> <<TitleLine(h1[c])>> \o printSubcommands(h1, c, iter)
                 \o <<FlagsHeader>> \o PrintDefaults(h1[c].Flags)]

\* c.Flags.Usage() for a non-nil c.Flags.
FlagsUsage(h, c, iter) ==
  IF h[c].Flags.usage = "newUsage"
  THEN newUsage(h, c, iter)
  ELSE [heap |-> h, out |-> defaultUsage(h[c].Flags)]

\* A variant of Parse: the error of a failed parse is dropped.
Parse_ignoreError(h, c, args, iter) ==
  LET p == ParseFrom(h[c].Flags, args)
  IN [heap |-> [h EXCEPT ![c].Flags = p.fs], out |-> << >>, err |-> << >>,
      exited |-> FALSE]

\* c.Flags.Parse(args) with the flag set's error handling. A failed parse
\* writes the error and calls the flag set's Usage; under ExitOnError the
\* flag package then ends the process with status 2, under ContinueOnError
\* it returns the error.
Parse(h, c, args, iter) ==
  LET p  == ParseFrom(h[c].Flags, args)
      h1 == [h EXCEPT ![c].Flags = p.fs]
  IN IF p.err = ""
     THEN [heap |-> h1, out |-> << >>, err |-> << >>, exited |-> FALSE]
     ELSE LET u == FlagsUsage(h1, c, iter)
          IN [heap |-> u.heap,
              out  |-> <<<<p.err, p.flag>>>> \o u.out,
              err  |-> <<p.err, p.flag>>,
              exited |-> (p.fs.errorHandling = "ExitOnError")]

\* ---------------------------------------------------------------------
\* The help subcommand
\* ---------------------------------------------------------------------

HelpDescription(parentName) ==
  <<"Print the help message for", parentName, "or a subcommand">>

\* newHelpCmd(parent): the Cmd literal it returns; Flags and Commands are
\* left nil.
newHelpCmd(h, parent) ==
  MkCmd("help", HelpDescription(h[parent].Name), NilFlags, "help", parent)

\* A variant of helpTarget: the last argument is consulted, not the first.
helpTarget_last(h, parent, args) ==
  IF Len(args.elems) = 0 \/ h[parent].Commands.isNil
  THEN parent
  ELSE Lookup(h[parent].Commands, args.elems[Len(args.elems)])

\* The Cmd the help closure prints: parent itself, the subcommand named by
\* args[0], or nil (0).
helpTarget(h, parent, args) ==
  IF Len(args.elems) = 0 \/ h[parent].Commands.isNil
  THEN parent
  ELSE Lookup(h[parent].Commands, args.elems[1])

\* The Run closure of newHelpCmd(parent), called with args. Yields the
\* heap, the lines written, the Cmds whose usage was printed and the error
\* returned (<< >> for nil).
helpRun(h, parent, args, iter) ==
  LET pp == helpTarget(h, parent, args)
  IN IF pp = 0
     THEN [heap |-> h, out |-> << >>, shown |-> << >>,
           err |-> <<"no such command", args.elems[1]>>]
     ELSE IF h[pp].Flags.isNil
     THEN [heap |-> h,
           out  |-> <<TitleLine(h[pp])>> \o printSubcommands(h, pp, iter),
           shown |-> <<pp>>, err |-> << >>]
     ELSE LET u == FlagsUsage(h, pp, iter)
          IN [heap |-> u.heap, out |-> u.out, shown |-> <<pp>>, err |-> << >>]

\* ---------------------------------------------------------------------
\* Construction and registration
\* ---------------------------------------------------------------------

\* &Cmd{Name: name, Run: run, Flags: flags}
CmdLiteral(name, run, flags) == MkCmd(name, << >>, flags, run, 0)

\* A variant of AddCmd: a name already registered keeps its Cmd.
AddCmd_keepFirst(h, c, cmd) ==
  LET h1 == IF h[c].Commands.isNil
            THEN [h EXCEPT ![c].Commands = MakeCommands]
            ELSE h
  IN IF h[cmd].Name = ""
     THEN [heap |-> h1, panicked |-> TRUE]
     ELSE IF h1[c].Commands.m[h[cmd].Name] # 0
     THEN [heap |-> h1, panicked |-> FALSE]
     ELSE [heap |-> [h1 EXCEPT ![c].Commands.m[h[cmd].Name] = cmd],
           panicked |-> FALSE]

\* c.AddCmd(cmd). The map is made before the name is looked at, so a panic
\* leaves a made map behind. Yields the heap and whether the call panicked.
AddCmd(h, c, cmd) ==
  LET h1 == IF h[c].Commands.isNil
            THEN [h EXCEPT ![c].Commands = MakeCommands]
            ELSE h
  IN IF h[cmd].Name = ""
     THEN [heap |-> h1, panicked |-> TRUE]
     ELSE [heap |-> [h1 EXCEPT ![c].Commands.m[h[cmd].Name] = cmd],
           panicked |-> FALSE]

\* New(name, run): the new Cmd is allocated at Len(h) + 1 and its help
\* subcommand at Len(h) + 2.
New(h, name, run) ==
  LET c  == Len(h) + 1
      fs == [NewFlagSet(name, "ExitOnError") EXCEPT !.usage = "newUsage"]
      h1 == Append(h, MkCmd(name, << >>, fs, run, 0))
      h2 == Append(h1, newHelpCmd(h1, c))
  IN AddCmd(h2, c, c + 1).heap

\* c.Flags.String(f, "", "..."): declares flag f on the flag set of c.
DeclareFlag(h, c, f) == [h EXCEPT ![c].Flags.formal = @ \cup {f}]

\* ---------------------------------------------------------------------
\* Dispatch
\* ---------------------------------------------------------------------

\* What one call of ExecArgs did: the heap it leaves, the lines written to
\* os.Stderr, how it ended ("return", "exit1", "exit2"), the RunFuncs that
\* were called, the calls of ExecArgs themselves, outermost first, and the
\* Cmds whose usage was printed.
Result(h, out, status, calls, execs, shown) ==
  [heap |-> h, out |-> out, status |-> status, calls |-> calls,
   execs |-> execs, shown |-> shown]

\* c.Run(c, args) for a non-nil Run. A RunFunc of the program returns nil
\* or an error as it pleases (runErr).
Run(h, c, args, iter, runErr) ==
  IF h[c].Run = "help"
  THEN helpRun(h, h[c].parent, args, iter)
  ELSE [heap |-> h, out |-> << >>, shown |-> << >>,
        err |-> IF runErr THEN <<"failed">> ELSE << >>]

\* Whether the first positional argument names a registered subcommand
\* (the conditions of the two if statements of ExecArgs), and which.
Subcommand(cmd) ==
  IF ~cmd.Commands.isNil /\ Arg0(cmd.Flags) # ""
  THEN Lookup(cmd.Commands, Arg0(cmd.Flags))
  ELSE 0

\* A variant of SubArgs: an empty slice where the code passes nil.
SubArgs_empty(fs) ==
  IF NArg(fs) > 1 THEN SliceTail(fs.args) ELSE MkSlice(<< >>)

\* The arguments ExecArgs hands to the subcommand.
SubArgs(fs) == IF NArg(fs) > 1 THEN SliceTail(fs.args) ELSE NilSlice

\* A variant of RunArgs: the arguments as given, flags included.
RunArgs_raw(fs, args) == args

\* A variant of RunArgs: the matched-or-not first positional is dropped.
RunArgs_dropFirst(fs, args) ==
  IF NArg(fs) > 0 THEN SliceTail(fs.args) ELSE fs.args

\* The arguments ExecArgs hands to c.Run: c.Flags.Args(), what the parse of
\* args left.
RunArgs(fs, args) == fs.args

RECURSIVE ExecArgs(_, _, _, _, _)
ExecArgs(h, c, args, iter, runErr) ==
  LET me == <<[cmd |-> c, args |-> args]>>
      h1 == IF h[c].Flags.isNil
            THEN [h EXCEPT ![c].Flags = NewFlagSet(ProgName, "ExitOnError")]
            ELSE h
      p  == Parse(h1, c, args, iter)
      h2 == p.heap
      fs == h2[c].Flags
      sub == Subcommand(h2[c])
  IN IF p.exited
     THEN Result(h2, p.out, "exit2", << >>, me, <<c>>)
     ELSE IF p.err # << >>
     THEN Result(h2, p.out \o <<<<"error parsing arguments:">> \o p.err>>,
                 "exit2", << >>, me, <<c>>)
     ELSE IF sub # 0
     THEN LET r == ExecArgs(h2, sub, SubArgs(fs), iter, runErr)
          IN [r EXCEPT !.execs = me \o @]
     ELSE IF h2[c].Run = "nil"
     THEN LET u == FlagsUsage(h2, c, iter)
          IN Result(u.heap, u.out, "exit1", << >>, me, <<c>>)
     ELSE LET r == Run(h2, c, RunArgs(fs, args), iter, runErr)
              ran == <<[cmd |-> c, args |-> RunArgs(fs, args)]>>
          IN IF r.err # << >>
             THEN Result(r.heap, r.out \o <<<<"error:">> \o r.err>>,
                         "exit1", ran, me, r.shown)
             ELSE Result(r.heap, r.out, "return", ran, me, r.shown)

\* ---------------------------------------------------------------------
\* State
\* ---------------------------------------------------------------------

VARIABLES
  heap,      \* the Cmd values of the program
  phase,     \* "setup", or how the dispatch ended: "return", "exit1", "exit2"
  panicked,  \* whether the last call of AddCmd panicked (and was recovered)
  latest,    \* latest[c][k]: the Cmd last passed to c.AddCmd under name k
  call,      \* the dispatch made: the Cmd and the arguments of ExecArgs
  last       \* what the dispatch did (a Result)

vars == <<heap, phase, panicked, latest, call, last>>

Nodes == 1..Len(heap)

RunKinds == {"nil", "user"}

NoCall == [cmd |-> 0, args |-> NilSlice]

NoResult == Result(<< >>, << >>, "none", << >>, << >>, << >>)

\* The registrations a heap records, for latest.
Registered(h) == [c \in 1..Len(h) |-> h[c].Commands.m]

\* c.AddCmd(cmd), a panic being recovered by the caller
AddCmdAct(c, cmd) ==
  /\ phase = "setup"
  /\ LET r == AddCmd(heap, c, cmd)
     IN /\ heap' = r.heap
        /\ panicked' = r.panicked
  /\ latest' = IF heap[cmd].Name = "" THEN latest
               ELSE [latest EXCEPT ![c][heap[cmd].Name] = cmd]
  /\ UNCHANGED <<phase, call, last>>

\* c.ExecArgs(args); an exit ends the process, and the program makes one
\* dispatch
ExecArgsAct(c, args, iter, runErr) ==
  /\ phase = "setup"
  /\ LET r == ExecArgs(heap, c, args, iter, runErr)
     IN /\ heap' = r.heap
        /\ phase' = r.status
        /\ last' = [r EXCEPT !.heap = << >>]
  /\ call' = [cmd |-> c, args |-> args]
  /\ panicked' = FALSE
  /\ UNCHANGED latest

\* ---------------------------------------------------------------------
\* Registration: a root made by New and Cmd literals, registered in any
\* order under the root and under the first literal, then one dispatch.
\* ---------------------------------------------------------------------

\* root := New("a", run); b1 := &Cmd{Name: "b", Run: f}; b2 := &Cmd{Name: "b"};
\* nameless := &Cmd{}; root.AddCmd(b1)
CastHeap(run) ==
  LET h == New(<< >>, "a", run)
             \o <<CmdLiteral("b", "user", NilFlags), CmdLiteral("b", "nil", NilFlags),
                  CmdLiteral("", "nil", NilFlags)>>
  IN AddCmd(h, 1, 3).heap

Root == 1

\* The Cmds the program calls AddCmd on.
Parents == {1, 3}

Init ==
  /\ \E run \in RunKinds : heap = CastHeap(run)
  /\ phase = "setup"
  /\ panicked = FALSE
  /\ latest = Registered(heap)
  /\ call = NoCall
  /\ last = NoResult

Register ==
  /\ phase = "setup"
  /\ \E c \in Parents, cmd \in Nodes : AddCmdAct(c, cmd)

\* The choices a dispatch leaves to its environment. The runtime picks an
\* order each time a map is ranged over, which ExecArgs does only to print
\* the subcommands of the Cmd whose usage it prints; a RunFunc of the
\* program picks its result when it is called. A dispatch that does neither
\* is the same under every choice, and one choice stands for all of them.
KeysOf(cmds) == {k \in Keys : cmds.m[k] # 0}

Probe(c, args) == ExecArgs(heap, c, args, << >>, FALSE)

OrdersOf(r) ==
  IF r.shown = << >> THEN {<< >>}
  ELSE IterOrders(KeysOf(heap[r.shown[1]].Commands))

ErrorsOf(r) ==
  IF \E i \in DOMAIN r.calls : heap[r.calls[i].cmd].Run = "user"
  THEN BOOLEAN ELSE {FALSE}

Dispatch ==
  /\ phase = "setup"
  /\ \E args \in ArgLists :
       LET r == Probe(Root, args)
       IN \E iter \in OrdersOf(r), runErr \in ErrorsOf(r) :
            ExecArgsAct(Root, args, iter, runErr)

Next == Register \/ Dispatch

Spec == Init /\ [][Next]_vars

\* ---------------------------------------------------------------------
\* Dispatch: a chain root -> "a" -> "b" of Cmds of every kind, built and
\* registered, then one dispatch on the root.
\* ---------------------------------------------------------------------

\* How a Cmd of the chain is made: by New or as a literal, with or without
\* a RunFunc, a literal with or without a flag set of its own, and the flag
\* declared or not on a Cmd that has a flag set.
Kinds ==
  [ctor : {"New"}, run : RunKinds, flags : {"own"}, declared : BOOLEAN]
    \cup [ctor : {"Literal"}, run : RunKinds, flags : {"own"}, declared : BOOLEAN]
    \cup [ctor : {"Literal"}, run : RunKinds, flags : {"nil"}, declared : {FALSE}]

\* The heap with one more Cmd of kind k, allocated at Len(h) + 1.
Make(h, k, name) ==
  LET c  == Len(h) + 1
      h1 == IF k.ctor = "New"
            THEN New(h, name, k.run)
            ELSE Append(h, CmdLiteral(name, k.run,
                     IF k.flags = "own"
                     THEN NewFlagSet(name, "ContinueOnError")
                     ELSE NilFlags))
  IN IF k.declared THEN DeclareFlag(h1, c, "flag") ELSE h1

ChainHeap(k0, k1, k2) ==
  LET h0 == Make(<< >>, k0, "a")
      c1 == Len(h0) + 1
      h1 == AddCmd(Make(h0, k1, "a"), Root, c1).heap
      c2 == Len(h1) + 1
  IN AddCmd(Make(h1, k2, "b"), c1, c2).heap

\* The root is made by New.
RootKinds == {k \in Kinds : k.ctor = "New"}

DispatchInit ==
  /\ \E k0 \in RootKinds, k1 \in Kinds, k2 \in Kinds : heap = ChainHeap(k0, k1, k2)
  /\ phase = "setup"
  /\ panicked = FALSE
  /\ latest = Registered(heap)
  /\ call = NoCall
  /\ last = NoResult

DispatchSpec == DispatchInit /\ [][Dispatch]_vars

\* ---------------------------------------------------------------------
\* What the properties are stated with
\* ---------------------------------------------------------------------

Dispatching == phase = "setup" /\ phase' # "setup"

Dispatched == phase # "setup"

\* The positional arguments of an argument list: what is left after the
\* flags in front.
RECURSIVE Positionals(_)
Positionals(s) ==
  IF s = << >> \/ Head(s) \notin FlagTokens THEN s ELSE Positionals(Tail(s))

\* The flags given in front of the positional arguments.
RECURSIVE GivenFlags(_)
GivenFlags(s) ==
  IF s = << >> \/ Head(s) \notin FlagTokens THEN {}
  ELSE {FlagNameOf(Head(s))} \cup GivenFlags(Tail(s))

\* Whether the flags given to c are all declared on it.
ParseSucceeds(h, c, s) == GivenFlags(s) \subseteq h[c].Flags.formal

\* Whether tok names a registered subcommand of c.
NamesChild(h, c, tok) == Lookup(h[c].Commands, tok) # 0

\* Whether the first positional argument of s names no subcommand of c.
Unmatched(h, c, s) ==
  Positionals(s) = << >> \/ ~NamesChild(h, c, Head(Positionals(s)))

\* The Cmd reached from c along the registered names.
RECURSIVE Walk(_, _, _)
Walk(h, c, names) ==
  IF names = << >> THEN c
  ELSE LET sub == Lookup(h[c].Commands, Head(names))
       IN IF sub = 0 THEN 0 ELSE Walk(h, sub, Tail(names))

Has(out, line) == \E i \in DOMAIN out : out[i] = line

\* The rows of a Commands section.
CommandLines(out) == SelectSeq(out, LAMBDA l : l[1] = "command")

\* The members of K in increasing order.
Increasing(K) ==
  CHOOSE s \in IterOrders(K) : \A i, j \in DOMAIN s : i < j => Less(s[i], s[j])

\* The three shapes a printed usage takes.
CommandsSection(h, c) ==
  IF h[c].Commands.isNil THEN << >>
  ELSE LET names == Increasing(KeysOf(h[c].Commands))
       IN <<CommandsHeader>>
            \o [i \in DOMAIN names |->
                  <<"command", names[i]>> \o h[h[c].Commands.m[names[i]]].Description]

FlagsSection(h, c) ==
  LET names == Increasing(h[c].Flags.formal)
  IN [i \in DOMAIN names |-> <<"flag", names[i]>>]

FullUsage(h, c) ==
  <<TitleLine(h[c])>> \o CommandsSection(h, c) \o <<FlagsHeader>> \o FlagsSection(h, c)

BareUsage(h, c) == <<TitleLine(h[c])>> \o CommandsSection(h, c)

PackageUsage(h, c) == <<<<"Usage of", h[c].Flags.name>>>> \o FlagsSection(h, c)

UsageOf(h, c) ==
  IF h[c].Flags.isNil THEN BareUsage(h, c)
  ELSE IF h[c].Flags.usage = "newUsage" THEN FullUsage(h, c)
  ELSE PackageUsage(h, c)

\* Whether a usage was written.
HasUsage(out) ==
  \E i \in DOMAIN out : out[i][1] \in {"title", "Usage of", "Usage:"}

\* ---------------------------------------------------------------------
\* Properties
\* ---------------------------------------------------------------------

\* The arguments <<k1, ..., kN, flag, pos>> of C1: N >= 1 names, a flag
\* token and a positional token.
IsChainCall(A) ==
  /\ Len(A) >= 3
  /\ A[Len(A) - 1] \in FlagTokens
  /\ A[Len(A)] \in Keys
  /\ \A i \in 1..(Len(A) - 2) : A[i] \in Keys

\* h is the heap before the dispatch, h2 the heap after it, r its result.
C1_Routes(h, A, r, h2) ==
  IsChainCall(A) =>
    LET t    == Walk(h, Root, SubSeq(A, 1, Len(A) - 2))
        tok  == A[Len(A) - 1]
        pos  == A[Len(A)]
    IN (/\ t # 0
        /\ FlagNameOf(tok) \in h[t].Flags.formal
        /\ h[t].Run # "nil"
        /\ ~NamesChild(h, t, pos))
       => /\ r.calls = <<[cmd |-> t, args |-> MkSlice(<<pos>>)]>>
          /\ h2[t].Flags.value[FlagNameOf(tok)] = FlagValueOf(tok)
          /\ \A n \in (1..Len(h)) \ {t} : h2[n].Flags.value[FlagNameOf(tok)] = ""

\* C1: dispatching <<k1, ..., kN, "--flag=v", pos>> on the root, where the
\* names k1..kN lead along registered subcommands to a Cmd that declares the
\* flag and has a RunFunc, and pos names no subcommand of that Cmd, calls
\* the RunFunc of that Cmd and of no other, with the arguments <<pos>>, and
\* binds v in the flag set of that Cmd and in no other.
C1_ChainDispatch ==
  [][Dispatching => C1_Routes(heap, call'.args.elems, last', heap')]_vars

\* A dispatch two levels down: <<"a", "b", "--flag=v", "a">> ran the Cmd
\* registered as "b" under "a" with <<"a">> and bound the flag there.
C1_Witness ==
  /\ Dispatched
  /\ call.args.elems = <<"a", "b", "--flag=v", "a">>
  /\ Len(last.execs) = 3
  /\ Len(last.calls) = 1
  /\ last.calls[1].cmd = Walk(heap, Root, <<"a", "b">>)
  /\ last.calls[1].args = MkSlice(<<"a">>)
  /\ heap[last.calls[1].cmd].Flags.value["flag"] = "v"

\* C2: every call of ExecArgs on a Cmd that has a RunFunc, whose flags parse
\* and whose first positional argument names no registered subcommand, calls
\* that RunFunc with the Cmd and with all the positional arguments, the
\* unmatched first one included, in their order; no other RunFunc is called.
C2_RunGetsAllPositionals ==
  Dispatched =>
    \A i \in DOMAIN last.execs :
      LET c == last.execs[i].cmd
          X == last.execs[i].args.elems
      IN (heap[c].Run # "nil" /\ ParseSucceeds(heap, c, X) /\ Unmatched(heap, c, X))
         => /\ Len(last.calls) = 1
            /\ last.calls[1].cmd = c
            /\ last.calls[1].args.elems = Positionals(X)

\* A RunFunc was called with two positional arguments, flags in front of
\* them having been taken off and the first naming no subcommand.
C2_Witness ==
  /\ Dispatched
  /\ Len(last.calls) = 1
  /\ LET e == last.execs[Len(last.execs)]
     IN /\ e.cmd = last.calls[1].cmd
        /\ heap[e.cmd].Run = "user"
        /\ e.args.elems = <<"--flag=v", "b", "a">>
        /\ last.calls[1].args.elems = <<"b", "a">>
        /\ ~NamesChild(heap, e.cmd, "b")

NoChildren(h, c) == KeysOf(h[c].Commands) = {}

\* C4: the help closure, called with args, prints the usage of its parent
\* and returns nil when args is empty or the parent has no subcommands;
\* else prints the usage of the subcommand args[0] names and returns nil;
\* else prints nothing and returns the error "no such command" with args[0].
\* What it does is decided by args[0] alone.
C4_HelpAction ==
  Dispatched =>
    \A i \in DOMAIN last.calls :
      heap[last.calls[i].cmd].Run = "help" =>
        LET parent == heap[last.calls[i].cmd].parent
            X == last.calls[i].args.elems
            t == IF X = << >> \/ NoChildren(heap, parent) THEN parent
                 ELSE Lookup(heap[parent].Commands, X[1])
        IN IF t # 0
           THEN phase = "return" /\ last.shown = <<t>> /\ last.out = UsageOf(heap, t)
           ELSE /\ phase = "exit1"
                /\ last.shown = << >>
                /\ last.out = <<<<"error:", "no such command", X[1]>>>>

\* help was called with two arguments, the first naming a subcommand and
\* the second not: the usage of that subcommand was printed.
C4_Witness ==
  /\ Dispatched
  /\ Len(last.calls) = 1
  /\ heap[last.calls[1].cmd].Run = "help"
  /\ LET parent == heap[last.calls[1].cmd].parent
         X == last.calls[1].args.elems
     IN /\ Len(X) = 2
        /\ NamesChild(heap, parent, X[1])
        /\ ~NamesChild(heap, parent, X[2])
        /\ last.shown = <<Lookup(heap[parent].Commands, X[1])>>
        /\ phase = "return"

\* Whether help ran without arguments for a parent that has no subcommand
\* but help.
HelpOfChildless ==
  /\ Dispatched
  /\ Len(last.calls) = 1
  /\ heap[last.calls[1].cmd].Run = "help"
  /\ last.calls[1].args.elems = << >>
  /\ KeysOf(heap[heap[last.calls[1].cmd].parent].Commands) = {"help"}

\* C8 as the specification states it: help without arguments on a Cmd
\* without subcommands prints no Commands section.
C8_Original == HelpOfChildless => ~Has(last.out, CommandsHeader)

\* C8, amended: help without arguments on a Cmd made by New to which no
\* further subcommand was registered prints the title line of the Cmd, a
\* Commands section whose one row is help, and the Flags section.
C8_HelpOfChildless ==
  HelpOfChildless =>
    LET parent == heap[last.calls[1].cmd].parent
    IN /\ last.out = FullUsage(heap, parent)
       /\ CommandLines(last.out)
            = <<<<"command", "help">> \o HelpDescription(heap[parent].Name)>>
       /\ Has(last.out, FlagsHeader)

C8_Witness == HelpOfChildless /\ Has(last.out, CommandsHeader) /\ phase = "return"

\* C9 as the specification states it: the subcommand is executed with an
\* empty, non-nil slice when no positional argument follows its name.
C9_Original ==
  Dispatched =>
    \A i \in 1..(Len(last.execs) - 1) :
      last.execs[i + 1].args = MkSlice(Tail(Positionals(last.execs[i].args.elems)))

\* C9, amended: the subcommand is executed with nil (the nil slice, whose
\* length is zero) when no positional argument follows its name, and else
\* with the positional arguments after its name, in their order.
C9_SubcommandArgs ==
  Dispatched =>
    \A i \in 1..(Len(last.execs) - 1) :
      LET P == Positionals(last.execs[i].args.elems)
      IN /\ last.execs[i + 1].cmd = Lookup(heap[last.execs[i].cmd].Commands, P[1])
         /\ last.execs[i + 1].args =
              IF Len(P) > 1 THEN MkSlice(Tail(P)) ELSE NilSlice

\* A subcommand was executed with nil, and one below it with arguments.
C9_Witness ==
  /\ Dispatched
  /\ Len(last.execs) = 3
  /\ last.execs[2].args = MkSlice(<<"b">>)
  /\ last.execs[3].args = NilSlice
  /\ Len(last.calls) = 1
  /\ last.calls[1].args = NilSlice

\* What a dispatch wrote apart from error messages.
UsageWritten(out) ==
  SelectSeq(out, LAMBDA l :
    l[1] \notin {"flag provided but not defined", "error parsing arguments:", "error:"})

\* C10 as the specification states it: every usage printed is the title
\* line, the Commands section if the Cmd has subcommands, the Flags header
\* and the flag defaults, and the Cmd has a flag set afterwards.
C10_Original ==
  (Dispatched /\ last.shown # << >>) =>
    /\ UsageWritten(last.out) = FullUsage(heap, last.shown[1])
    /\ ~heap[last.shown[1]].Flags.isNil

\* C10, amended: a usage printed through the hook New installs is the title
\* line, the Commands section if the map of subcommands is not nil, the
\* Flags header and the flag defaults. The usage help prints for a Cmd
\* without a flag set is the title line and the Commands section only, and
\* the Cmd is left without a flag set. The usage of a flag set New did not
\* make is the flag package's own: "Usage of" with the name of the flag set,
\* and the flag defaults. A Cmd is without a flag set after its usage was
\* printed only if help printed it.
C10_UsageShapes ==
  (Dispatched /\ last.shown # << >>) =>
    LET t == last.shown[1]
    IN /\ Len(last.shown) = 1
       /\ UsageWritten(last.out) = UsageOf(heap, t)
       /\ heap[t].Flags.isNil =>
            (Len(last.calls) = 1 /\ heap[last.calls[1].cmd].Run = "help")

\* help printed a Cmd that has no flag set: no Flags header was written and
\* the Cmd still has no flag set.
C10_Witness ==
  /\ Dispatched
  /\ last.shown # << >>
  /\ heap[last.shown[1]].Flags.isNil
  /\ ~Has(last.out, FlagsHeader)
  /\ Has(last.out, TitleLine(heap[last.shown[1]]))

\* C7 as the documentation of New states it: for a root made by New and a
\* registered subcommand s, dispatching <<"help", s>> and <<s, "help">> write
\* the same and end the same.
C7_HelpEitherWay ==
  phase = "setup" =>
    \A s \in KeysOf(heap[Root].Commands) :
      LET r1 == ExecArgs(heap, Root, MkSlice(<<"help", s>>), Increasing(Keys), FALSE)
          r2 == ExecArgs(heap, Root, MkSlice(<<s, "help">>), Increasing(Keys), FALSE)
      IN r1.out = r2.out /\ r1.status = r2.status

\* C5 as the specification states it: a call of AddCmd that panics leaves
\* the map of subcommands of every Cmd as it was.
C5_PanicChangesNothing ==
  [][panicked' => \A c \in Nodes : heap'[c].Commands = heap[c].Commands]_vars

\* C6: under every Cmd each name is registered to the Cmd passed to the most
\* recent AddCmd with that name, and a Commands section printed for a Cmd
\* has one row for each registered name, in increasing order of the names.
C6_Registration ==
  /\ \A c \in Nodes : heap[c].Commands.m = latest[c]
  /\ (Dispatched /\ last.shown # << >> /\ Has(last.out, CommandsHeader)) =>
       LET rows == CommandLines(last.out)
           K == KeysOf(heap[last.shown[1]].Commands)
       IN /\ Len(rows) = Cardinality(K)
          /\ {rows[i][2] : i \in DOMAIN rows} = K
          /\ \A i, j \in DOMAIN rows : i < j => Less(rows[i][2], rows[j][2])

\* The root was registered under itself and "b" was registered a second
\* time; the listing of the root has the rows a, b, help, in that order.
C6_Witness ==
  /\ Dispatched
  /\ last.shown = <<Root>>
  /\ heap[Root].Commands.m["b"] = 4
  /\ LET rows == CommandLines(last.out)
     IN /\ Len(rows) = 3
        /\ rows[1][2] = "a" /\ rows[2][2] = "b" /\ rows[3][2] = "help"

====
